---- MODULE Spec2Model ----
(***************************************************************************)
(* Model of nfl_data.py: the Pro Football Reference client that walks the  *)
(* paginated query results for every (year, week, position), cleans the    *)
(* rows and writes one SQLite table per position.                          *)
(*                                                                         *)
(* Python strings that the program parses or formats (URL field values,    *)
(* table cells) are sequences of one-character strings, so that str(),     *)
(* int(), pd.to_numeric and pd.to_datetime are computed, not assumed.      *)
(***************************************************************************)
EXTENDS Integers, Sequences, FiniteSets, TLC

VARIABLES
    years,       \* module-level list `years` (the seasons swept)
    weeks,       \* module-level list `weeks`
    positions,   \* the members `for position in Position` iterates
    remote,      \* which pages the remote site may answer with
    pc,          \* position of the main block
    pi,          \* index in `positions` of the current position (0: none yet)
    qi,          \* index in product(years, weeks, [position]) of the next query
    url,         \* pfr_url_to_df's local `url`
    text,        \* pfr_url_to_df's local `text` (the last page downloaded)
    df,          \* pfr_url_to_df's local `df`
    agg_df,      \* the main block's `agg_df`
    db,          \* the tables seen through the connection `con`
    committed,   \* the tables as last committed to nfl_data.sqlite3
    exc,         \* the exception that left the main block, or "none"
    requests,    \* history: the GETs of the current walk, <<url, page>>
    walks,       \* history: the finished walks of the current position
    persistLog,  \* history: the to_sql calls of the run
    k            \* offset advances applied so far (URL specification)

vars == <<years, weeks, positions, remote, pc, pi, qi, url, text, df, agg_df,
          db, committed, exc, requests, walks, persistLog, k>>

---------------------------------------------------------------------------
(* Bounds of the model *)

\* how many entries of `years` a multi-query run sweeps
NumYears == 2
\* the remote result sets span at most this many pages
MaxPages == 2
\* a page of the varied remote holds at most this many rows
MaxRows == 1
\* how many times the URL specification advances the offset
MaxAdvance == 11

---------------------------------------------------------------------------
(* Python strings, str(int) and int(str) *)

Digits == <<"0", "1", "2", "3", "4", "5", "6", "7", "8", "9">>

IsDigit(c) == \E d \in 1..10 : Digits[d] = c

DigitVal(c) == (CHOOSE d \in 1..10 : Digits[d] = c) - 1

RECURSIVE NatToStr(_)
NatToStr(n) == IF n < 10 THEN <<Digits[n + 1]>>
               ELSE NatToStr(n \div 10) \o <<Digits[(n % 10) + 1]>>

\* str(n) of a Python int
PyStr(n) == IF n < 0 THEN <<"-">> \o NatToStr(0 - n) ELSE NatToStr(n)

AllDigits(s) == Len(s) > 0 /\ \A i \in 1..Len(s) : IsDigit(s[i])

\* whether int(s) succeeds: an optional sign and decimal digits
IsIntLiteral(s) ==
    /\ Len(s) > 0
    /\ IF s[1] \in {"-", "+"} THEN AllDigits(Tail(s)) ELSE AllDigits(s)

RECURSIVE DigitsToNat(_)
DigitsToNat(s) == IF Len(s) = 0 THEN 0
                  ELSE 10 * DigitsToNat(SubSeq(s, 1, Len(s) - 1)) + DigitVal(s[Len(s)])

\* int(s) where it succeeds
PyInt(s) == IF s[1] = "-" THEN 0 - DigitsToNat(Tail(s))
            ELSE IF s[1] = "+" THEN DigitsToNat(Tail(s))
            ELSE DigitsToNat(s)

Take(s, n) == SubSeq(s, 1, IF n < Len(s) THEN n ELSE Len(s))

RECURSIVE Flatten(_)
Flatten(ss) == IF Len(ss) = 0 THEN <<>> ELSE Head(ss) \o Flatten(Tail(ss))

---------------------------------------------------------------------------
(* class Position *)

Position ==
    ("QB" :>  [cstat    |-> <<"p","a","s","s","_","a","t","t">>,
              order_by |-> <<"p","a","s","s","_","r","a","t","i","n","g">>,
              name     |-> "quarterbacks"]) @@
    ("RB" :>  [cstat    |-> <<"r","u","s","h","_","a","t","t">>,
              order_by |-> <<"r","u","s","h","_","y","d","s">>,
              name     |-> "runningbacks"]) @@
    ("REC" :> [cstat    |-> <<"r","e","c">>,
              order_by |-> <<"r","e","c","_","y","d","s">>,
              name     |-> "receivers"]) @@
    ("DEF" :> [cstat    |-> <<"t","a","c","k","l","e","s","_","s","o","l","o">>,
              order_by |-> <<"s","a","c","k","s">>,
              name     |-> "defense"])

\* the members in definition order, as `for position in Position` yields them
PositionMembers == <<"QB", "RB", "REC", "DEF">>

TableNames == {Position[p].name : p \in DOMAIN Position}

YearList == <<2010, 2011, 2012, 2013, 2014, 2015, 2016, 2017, 2018, 2019>>

WeekList == <<1, 2, 3, 4, 5, 6, 7, 8, 9, 10, 11, 12, 13, 14, 15, 16, 17>>

---------------------------------------------------------------------------
(* build_pfr_url and increase_url_offset *)

\* a value of the query dict: an int or a str
I(n) == [t |-> "int", n |-> n]
S(s) == [t |-> "str", s |-> s]

\* str() of a query value, as urlencode applies it (no character of these
\* values needs quoting)
ValueStr(v) == IF v.t = "int" THEN PyStr(v.n) ELSE v.s

\* urlencode(query): the key=value fields in the dict's order
UrlEncode(query) == [i \in 1..Len(query) |-> <<query[i][1], ValueStr(query[i][2])>>]

\* the query dict literal of build_pfr_url
QueryDict(year, week, position, offset) ==
    << <<"request", I(1)>>,
       <<"match", S(<<"g","a","m","e">>)>>,
       <<"year_min", I(year)>>,
       <<"year_max", I(year)>>,
       <<"season_start", I(1)>>,
       <<"season_end", I(-1)>>,
       <<"age_min", I(0)>>,
       <<"age_max", I(99)>>,
       <<"game_type", S(<<"A">>)>>,
       <<"game_num_min", I(0)>>,
       <<"game_num_max", I(99)>>,
       <<"week_num_min", I(week)>>,
       <<"week_num_max", I(week)>>,
       <<"c1stat", S(Position[position].cstat)>>,
       <<"c1comp", S(<<"g","t">>)>>,
       <<"c1val", I(1)>>,
       <<"order_by", S(Position[position].order_by)>>,
       <<"from_link", I(1)>>,
       <<"offset", I(offset)>>
    >>

\* f'{base}/?{urlencode(query)}', kept in the parts urlparse splits it into
build_pfr_url(year, week, position, offset) ==
    [scheme |-> "https",
     netloc |-> "www.pro-football-reference.com",
     path   |-> "/play-index/pgl_finder.cgi/",
     query  |-> UrlEncode(QueryDict(year, week, position, offset))]

\* the keys of a field list, each once, in order of first appearance
RECURSIVE KeysOf(_)
KeysOf(fields) ==
    IF Len(fields) = 0 THEN <<>>
    ELSE LET rest == KeysOf(SubSeq(fields, 1, Len(fields) - 1))
             key  == fields[Len(fields)][1]
         IN  IF \E i \in 1..Len(rest) : rest[i] = key THEN rest
             ELSE Append(rest, key)

\* the values of `key` in a field list, in order
RECURSIVE ValuesOf(_, _)
ValuesOf(fields, key) ==
    IF Len(fields) = 0 THEN <<>>
    ELSE IF Head(fields)[1] = key
         THEN <<S(Head(fields)[2])>> \o ValuesOf(Tail(fields), key)
         ELSE ValuesOf(Tail(fields), key)

\* the fields parse_qs keeps: blank values are dropped
RECURSIVE NonBlank(_)
NonBlank(fields) ==
    IF Len(fields) = 0 THEN <<>>
    ELSE IF Len(Head(fields)[2]) = 0 THEN NonBlank(Tail(fields))
         ELSE <<Head(fields)>> \o NonBlank(Tail(fields))

\* parse_qs(query): a dict from each key to the list of its values
parse_qs(query) ==
    LET kept == NonBlank(query)
        keys == KeysOf(kept)
    IN  [i \in 1..Len(keys) |-> <<keys[i], ValuesOf(kept, keys[i])>>]

HasKey(dict, key) == \E i \in 1..Len(dict) : dict[i][1] = key

Lookup(dict, key) == dict[CHOOSE i \in 1..Len(dict) : dict[i][1] = key][2]

\* urlencode(query_args, doseq=True): one field per element of each list
UrlEncodeSeq(dict) ==
    Flatten([i \in 1..Len(dict) |->
               [j \in 1..Len(dict[i][2]) |-> <<dict[i][1], ValueStr(dict[i][2][j])>>]])

\* the default of increase_url_offset's `increase`
DefaultIncrease == 100

\* whether increase_url_offset returns (no KeyError, no ValueError)
OffsetParses(u) ==
    LET query_args == parse_qs(u.query)
    IN  /\ HasKey(query_args, "offset")
        /\ IsIntLiteral(Lookup(query_args, "offset")[1].s)

\* the increase appended as text: query_args['offset'][0] + str(increase)
BumpOffsetAsText(query_args, increase) ==
    [i \in 1..Len(query_args) |->
        IF query_args[i][1] = "offset"
        THEN <<"offset",
               [query_args[i][2] EXCEPT ![1] = S(query_args[i][2][1].s \o PyStr(increase))]>>
        ELSE query_args[i]]

\* query_args['offset'][0] = int(query_args['offset'][0]) + increase
BumpOffset(query_args, increase) ==
    [i \in 1..Len(query_args) |->
        IF query_args[i][1] = "offset"
        THEN <<"offset",
               [query_args[i][2] EXCEPT ![1] = I(PyInt(query_args[i][2][1].s) + increase)]>>
        ELSE query_args[i]]

increase_url_offset(u) ==
    [u EXCEPT !.query = UrlEncodeSeq(BumpOffset(parse_qs(u.query), DefaultIncrease))]

\* the value of field `key` as the remote site reads it from a request
Field(u, key) == Lookup(parse_qs(u.query), key)[1].s

OffsetOf(u) == PyInt(Field(u, "offset"))

---------------------------------------------------------------------------
(* Table cells and the converters of pfr_url_to_df *)

NaN == [t |-> "nan"]

Ts(y, m, d) == [t |-> "ts", y |-> y, m |-> m, d |-> d]

PLAYER == <<"P","l","a","y","e","r">>

UNNAMED7 == "Unnamed: 7"

\* errors='coerce': what does not parse becomes NaN
ToNumericCoerce(x) == IF IsIntLiteral(x) THEN I(PyInt(x)) ELSE NaN

\* pd.to_numeric(x, errors='ignore') of one cell: the number, or x itself
ToNumeric(x) == IF IsIntLiteral(x) THEN I(PyInt(x)) ELSE S(x)

IsIsoDate(x) ==
    /\ Len(x) = 10
    /\ x[5] = "-" /\ x[8] = "-"
    /\ \A i \in {1, 2, 3, 4, 6, 7, 9, 10} : IsDigit(x[i])
    /\ DigitsToNat(SubSeq(x, 6, 7)) \in 1..12
    /\ DigitsToNat(SubSeq(x, 9, 10)) \in 1..31

\* pd.to_datetime(x, errors='ignore') of one cell: the timestamp, or x itself
ToDatetime(x) ==
    IF IsIsoDate(x)
    THEN Ts(DigitsToNat(SubSeq(x, 1, 4)), DigitsToNat(SubSeq(x, 6, 7)),
            DigitsToNat(SubSeq(x, 9, 10)))
    ELSE S(x)

\* the keys of `converters`
NumericColumns == {"Rk", "Age", "G#", "Week", "Cmp", "Att", "Cmp%", "Yds", "TD",
                   "Int", "Rate", "Sk", "Yds.1", "Y/A", "AY/A"}

DateColumns == {"Date"}

\* one cell as pd.read_html(..., converters=converters) delivers it
ReadCell(c, x) ==
    IF c \in NumericColumns THEN ToNumeric(x)
    ELSE IF c \in DateColumns THEN ToDatetime(x)
    ELSE IF Len(x) = 0 THEN NaN
    ELSE S(x)

---------------------------------------------------------------------------
(* Data frames: a column set and the rows, each a function on the columns *)

\* pd.DataFrame()
EmptyFrame == [columns |-> {}, rows |-> <<>>]

\* pd.read_html(text, skiprows=1, header=0, converters=converters)[0]
ReadHtml(page) ==
    [columns |-> page.columns,
     rows    |-> [i \in 1..Len(page.rows) |->
                    [c \in page.columns |-> ReadCell(c, page.rows[i][c])]]]

Reindex(row, columns) ==
    [c \in columns |-> IF c \in DOMAIN row THEN row[c] ELSE NaN]

\* df = df2: the pages before are lost
LastFrameOnly(a, b) == b

\* pd.concat([a, b]): the rows of a then of b, over the union of the
\* columns, a cell of a column a row's frame lacks being NaN
Concat(a, b) ==
    LET columns == a.columns \cup b.columns
    IN  [columns |-> columns,
         rows    |-> [i \in 1..Len(a.rows) |-> Reindex(a.rows[i], columns)]
                     \o [i \in 1..Len(b.rows) |-> Reindex(b.rows[i], columns)]]

IsHeaderRepeat(row) == row["Player"] = S(PLAYER)

\* the filter left out
NoFilter(d) == d

\* df.loc[df.Player != 'Player']
FilterHeader(d) ==
    [d EXCEPT !.rows = SelectSeq(d.rows, LAMBDA row : ~IsHeaderRepeat(row))]

\* df.drop(column, axis='columns')
Drop(d, column) ==
    [columns |-> d.columns \ {column},
     rows    |-> [i \in 1..Len(d.rows) |->
                    [c \in d.columns \ {column} |-> d.rows[i][c]]]]

\* the exception the lines after the while loop raise on d, or "none":
\* df.Player needs the column Player, df.drop the column Unnamed: 7
CleanError(d) ==
    IF "Player" \notin d.columns THEN "AttributeError"
    ELSE IF UNNAMED7 \notin d.columns THEN "KeyError"
    ELSE "none"

\* lines 146-153: filter, infer_objects (which changes column dtypes, not
\* cells), drop
Clean(d) == Drop(FilterHeader(d), UNNAMED7)

\* more pages expected whenever the page has rows
HasRows(page) == Len(page.rows) > 0

\* 'Next Page' in text
HasNextPage(page) == page.next

---------------------------------------------------------------------------
(* The remote site: what session.get(url).text may hold *)

StdColumns == {"Rk", "Player", "Pos", "Date", "Week", UNNAMED7}

\* the header labels, which a header-repeat row carries as its cells (the
\* unnamed column's label is blank)
Label ==
    ("Rk" :> <<"R","k">>) @@ ("Player" :> PLAYER) @@ ("Pos" :> <<"P","o","s">>) @@
    ("Date" :> <<"D","a","t","e">>) @@ ("Week" :> <<"W","e","e","k">>) @@
    (UNNAMED7 :> <<>>) @@ ("Tm" :> <<"T","m">>)

PosCode ==
    ("QB" :> <<"Q","B">>) @@ ("RB" :> <<"R","B">>) @@ ("REC" :> <<"W","R">>) @@
    ("DEF" :> <<"L","B">>)

\* what the site reads from a request: the offset, the season, the week and
\* the position whose comparison stat it names
Request(u) ==
    LET query_args == parse_qs(u.query)
        arg(key) == Lookup(query_args, key)[1].s
    IN  [offset |-> PyInt(arg("offset")),
         year   |-> arg("year_min"),
         week   |-> arg("week_num_min"),
         pos    |-> CHOOSE p \in DOMAIN Position : Position[p].cstat = arg("c1stat")]

\* row i of the page answering a request: a game line of the requested
\* season, week and position ranked offset + i, a repeat of the header, or
\* a game line whose date and week are not in the usual form
RawCell(kind, req, i, c) ==
    IF kind = "header" THEN Label[c]
    ELSE CASE c = "Rk"     -> PyStr(req.offset + i)
           [] c = "Player" -> IF kind = "odd" THEN <<"B","r","e","e","s">>
                              ELSE <<"B","r","a","d","y">>
           [] c = "Pos"    -> PosCode[req.pos]
           [] c = "Date"   -> IF kind = "odd" THEN <<"T","B","D">>
                              ELSE req.year \o <<"-","0","9","-","1","2">>
           [] c = "Week"   -> IF kind = "odd" THEN req.week \o <<"*">> ELSE req.week
           [] c = UNNAMED7 -> <<"@">>
           [] c = "Tm"     -> <<"N","E">>

RowKinds == {"data", "header", "odd"}

SeqsUpTo(A, n) == UNION {[1..m -> A] : m \in 0..n}

\* the <<row kinds, column set>> a page may have, per remote
Offers(mode) ==
    CASE mode = "plain"  -> {<< <<"data", "header">>, StdColumns >>}
      [] mode = "mixed"  -> {<< <<>>, StdColumns >>,
                             << <<"header", "data">>, StdColumns >>}
      [] mode = "varied" -> {<<shape, StdColumns>> : shape \in SeqsUpTo(RowKinds, MaxRows)}
                            \cup {<< <<"data">>, columns >> :
                                    columns \in {StdColumns \cup {"Tm"},
                                                 StdColumns \ {UNNAMED7},
                                                 StdColumns \ {"Player"}}}

\* a result set spans at most MaxPages pages: the last one has no marker
MarkerChoices(req) ==
    IF req.offset < DefaultIncrease * (MaxPages - 1) THEN BOOLEAN ELSE {FALSE}

Pages(u, mode) ==
    LET req == Request(u)
    IN  {[columns |-> offer[2],
          rows    |-> [i \in 1..Len(offer[1]) |->
                         [c \in offer[2] |-> RawCell(offer[1][i], req, i, c)]],
          next    |-> marker] : offer \in Offers(mode), marker \in MarkerChoices(req)}

---------------------------------------------------------------------------
(* The SQLite tables and DataFrame.to_sql *)

Absent == [exists |-> FALSE, columns |-> {}, rows |-> <<>>]

CreateTable(frame) == [exists |-> TRUE, columns |-> frame.columns, rows |-> <<>>]

\* the table a frame makes when written to a new name
TableOf(frame) == [exists |-> TRUE, columns |-> frame.columns, rows |-> frame.rows]

Insert(table, frame) == [table EXCEPT !.rows = table.rows \o frame.rows]

\* if_exists='append': the existing table is kept
KeepTable(table, frame) == table

\* if_exists='replace': an existing table is dropped and created anew
IfExists(table, frame) == CreateTable(frame)

\* agg_df.to_sql(name, con, if_exists='replace')
ToSql(tables, name, frame) ==
    [tables EXCEPT ![name] =
        Insert(IF tables[name].exists THEN IfExists(tables[name], frame)
               ELSE CreateTable(frame), frame)]

\* a row left in a table by an earlier run
StaleRow ==
    [c \in StdColumns \ {UNNAMED7} |->
        CASE c = "Rk"     -> I(1)
          [] c = "Player" -> S(<<"F","a","v","r","e">>)
          [] c = "Pos"    -> S(<<"Q","B">>)
          [] c = "Date"   -> Ts(2009, 9, 13)
          [] c = "Week"   -> I(1)]

\* nfl_data.sqlite3 before the run: new, or filled by an earlier run
NewTables == [n \in TableNames |-> Absent]

OldTables ==
    [n \in TableNames |->
        [exists |-> TRUE, columns |-> StdColumns \ {UNNAMED7}, rows |-> <<StaleRow>>]]

---------------------------------------------------------------------------
(* The main block *)

\* itertools.product(ys, ws, ps) as a list
Product(ys, ws, ps) ==
    [n \in 1..(Len(ys) * Len(ws) * Len(ps)) |->
        << ys[((n - 1) \div (Len(ws) * Len(ps))) + 1],
           ws[(((n - 1) \div Len(ps)) % Len(ws)) + 1],
           ps[((n - 1) % Len(ps)) + 1] >>]

position == positions[pi]

Queries == Product(years, weeks, <<position>>)

\* to_sql inside the inner loop: reached after the first query
AfterFirstQuery(i, queries) == i > 1

\* the inner for loop has run out of queries
SweepDone(i, queries) == i > Len(queries)

\* the exception swallowed: the loop goes on where it was
Retry(at) == at

\* nothing in the main block catches: an exception leaves the loops and the
\* with blocks, and the run ends
AfterException(at) == "aborted"

\* con.__exit__ on an exception: rollback of what is not committed
Raise(e) ==
    /\ exc' = e
    /\ pc' = AfterException(pc)
    /\ db' = committed
    /\ UNCHANGED <<years, weeks, positions, remote, pi, qi, url, text, df, agg_df,
                   committed, requests, walks, persistLog, k>>

\* agg_df = pd.DataFrame() before the outer loop: one frame for all positions
KeepAgg(previous) == previous

\* agg_df = pd.DataFrame() at the top of the outer loop's body: the frame
\* of the position before is let go
FreshAgg(previous) == EmptyFrame

\* for position in Position: agg_df = pd.DataFrame()
NextPosition ==
    /\ pc = "for_position"
    /\ pi < Len(positions)
    /\ pi' = pi + 1
    /\ agg_df' = FreshAgg(agg_df)
    /\ qi' = 1
    /\ walks' = <<>>
    /\ pc' = "for_query"
    /\ UNCHANGED <<years, weeks, positions, remote, url, text, df, db, committed,
                   exc, requests, persistLog, k>>

\* pfr_url_to_df(s, build_pfr_url(year, week, position)) up to the while
\* test: the first GET and read_html
StartWalk ==
    /\ pc = "for_query"
    /\ ~SweepDone(qi, Queries)
    /\ LET u == build_pfr_url(Queries[qi][1], Queries[qi][2], Queries[qi][3], 0)
       IN  \E page \in Pages(u, remote) :
              /\ url' = u
              /\ text' = page
              /\ df' = ReadHtml(page)
              /\ requests' = << <<u, page>> >>
    /\ pc' = "while"
    /\ UNCHANGED <<years, weeks, positions, remote, pi, qi, agg_df, db, committed,
                   exc, walks, persistLog, k>>

\* the first session.get raises
StartWalkFails ==
    /\ pc = "for_query"
    /\ ~SweepDone(qi, Queries)
    /\ Raise("TransportError")

\* one turn of the while loop: advance the offset, GET, read_html, concat
NextPage ==
    /\ pc = "while"
    /\ HasNextPage(text)
    /\ OffsetParses(url)
    /\ LET u == increase_url_offset(url)
       IN  \E page \in Pages(u, remote) :
              /\ url' = u
              /\ text' = page
              /\ df' = Concat(df, ReadHtml(page))
              /\ requests' = Append(requests, <<u, page>>)
    /\ UNCHANGED <<years, weeks, positions, remote, pc, pi, qi, agg_df, db,
                   committed, exc, walks, persistLog, k>>

\* session.get raises inside the while loop
NextPageFails ==
    /\ pc = "while"
    /\ HasNextPage(text)
    /\ Raise("TransportError")

\* the while loop ends: filter, infer_objects, drop, return; then
\* agg_df = pd.concat([agg_df, df])
ReturnWalk ==
    /\ pc = "while"
    /\ ~HasNextPage(text)
    /\ CleanError(df) = "none"
    /\ df' = Clean(df)
    /\ agg_df' = Concat(agg_df, df')
    /\ walks' = Append(walks, [query |-> Queries[qi], first |-> requests[1][1],
                                frame |-> df'])
    /\ qi' = qi + 1
    /\ pc' = "for_query"
    /\ UNCHANGED <<years, weeks, positions, remote, pi, url, text, db, committed,
                   exc, requests, persistLog, k>>

\* df.Player or df.drop raises
CleanFails ==
    /\ pc = "while"
    /\ ~HasNextPage(text)
    /\ CleanError(df) # "none"
    /\ Raise(CleanError(df))

\* agg_df.to_sql(position.value['name'], con, if_exists='replace'), which
\* commits its own transaction
Persist ==
    /\ pc = "for_query"
    /\ SweepDone(qi, Queries)
    /\ db' = ToSql(db, Position[position].name, agg_df)
    /\ committed' = db'
    /\ persistLog' = Append(persistLog, [name |-> Position[position].name,
                                         frame |-> agg_df, walks |-> walks])
    /\ pc' = "for_position"
    /\ UNCHANGED <<years, weeks, positions, remote, pi, qi, url, text, df, agg_df,
                   exc, requests, walks, k>>

\* the loops are over: the with blocks exit and con commits
Finish ==
    /\ pc = "for_position"
    /\ pi = Len(positions)
    /\ pc' = "done"
    /\ committed' = db
    /\ UNCHANGED <<years, weeks, positions, remote, pi, qi, url, text, df, agg_df,
                   db, exc, requests, walks, persistLog, k>>

\* the runs modelled: every position with one (year, week), on a new and on
\* an old database; one position with NumYears x 2 queries on an old one;
\* two positions against the mixed remote and one query against the varied
\* remote, on a new one
Runs ==
    {[positions |-> PositionMembers, years |-> Take(YearList, 1),
      weeks |-> Take(WeekList, 1), remote |-> "plain", tables |-> tables] :
        tables \in {NewTables, OldTables}}
    \cup
    {[positions |-> <<"QB">>, years |-> Take(YearList, NumYears),
      weeks |-> Take(WeekList, 2), remote |-> "plain", tables |-> OldTables],
     [positions |-> <<"REC", "DEF">>, years |-> SubSeq(YearList, 9, 9),
      weeks |-> SubSeq(WeekList, 17, 17), remote |-> "mixed", tables |-> NewTables],
     [positions |-> <<"RB">>, years |-> SubSeq(YearList, 10, 10),
      weeks |-> SubSeq(WeekList, 2, 2), remote |-> "varied", tables |-> NewTables]}

NoUrl == [scheme |-> "", netloc |-> "", path |-> "", query |-> <<>>]

NoPage == [columns |-> {}, rows |-> <<>>, next |-> FALSE]

Init ==
    /\ \E run \in Runs :
          /\ positions = run.positions
          /\ years = run.years
          /\ weeks = run.weeks
          /\ remote = run.remote
          /\ db = run.tables
    /\ committed = db
    /\ pc = "for_position"
    /\ pi = 0
    /\ qi = 1
    /\ url = NoUrl
    /\ text = NoPage
    /\ df = EmptyFrame
    /\ agg_df = EmptyFrame
    /\ exc = "none"
    /\ requests = <<>>
    /\ walks = <<>>
    /\ persistLog = <<>>
    /\ k = 0

Next ==
    \/ NextPosition
    \/ StartWalk
    \/ StartWalkFails
    \/ NextPage
    \/ NextPageFails
    \/ ReturnWalk
    \/ CleanFails
    \/ Persist
    \/ Finish

Spec == Init /\ [][Next]_vars

---------------------------------------------------------------------------
(* increase_url_offset applied again and again to a URL of build_pfr_url *)

InitUrl ==
    /\ \E y \in 1..Len(YearList), w \in 1..Len(WeekList), p \in DOMAIN Position :
          /\ years = <<YearList[y]>>
          /\ weeks = <<WeekList[w]>>
          /\ positions = <<p>>
          /\ url = build_pfr_url(YearList[y], WeekList[w], p, 0)
    /\ remote = "plain"
    /\ db = NewTables
    /\ committed = db
    /\ pc = "url"
    /\ pi = 1
    /\ qi = 1
    /\ text = NoPage
    /\ df = EmptyFrame
    /\ agg_df = EmptyFrame
    /\ exc = "none"
    /\ requests = <<>>
    /\ walks = <<>>
    /\ persistLog = <<>>
    /\ k = 0

Advance ==
    /\ pc = "url"
    /\ k < MaxAdvance
    /\ OffsetParses(url)
    /\ url' = increase_url_offset(url)
    /\ k' = k + 1
    /\ UNCHANGED <<years, weeks, positions, remote, pc, pi, qi, text, df, agg_df,
                   db, committed, exc, requests, walks, persistLog>>

NextUrl == Advance

SpecUrl == InitUrl /\ [][NextUrl]_vars

---------------------------------------------------------------------------
(* Properties *)

\* the raw rows of the pages downloaded by the current (or last) walk
Served == Flatten([i \in 1..Len(requests) |-> requests[i][2].rows])

RawIsHeader(raw) == "Player" \in DOMAIN raw /\ raw["Player"] = PLAYER

\* pfr_url_to_df has returned and its pages are still in `requests`
WalkReturned == pc = "for_query" /\ qi > 1

LastWalk == walks[Len(walks)]

\* C1: the walk accumulates every row of every downloaded page exactly once
\* and in order, and returns them less the header-repeat rows: its row count
\* is the sum of the page sizes minus the header repeats.
C1_WalkKeepsEveryRow ==
    /\ pc = "while" =>
          /\ Len(df.rows) = Len(Served)
          /\ \A j \in 1..Len(Served) : \A c \in DOMAIN Served[j] :
                df.rows[j][c] = ReadCell(c, Served[j][c])
    /\ WalkReturned =>
          LET kept == SelectSeq(Served, LAMBDA raw : ~RawIsHeader(raw))
              out  == LastWalk.frame.rows
          IN  /\ Len(out) = Len(Served)
                            - Cardinality({j \in 1..Len(Served) : RawIsHeader(Served[j])})
              /\ Len(out) = Len(kept)
              /\ \A j \in 1..Len(kept) : \A c \in DOMAIN kept[j] \ {UNNAMED7} :
                    out[j][c] = ReadCell(c, kept[j][c])

C1_Witness ==
    /\ WalkReturned
    /\ Len(requests) >= 2
    /\ \E j \in 1..Len(Served) : RawIsHeader(Served[j])
    /\ Len(LastWalk.frame.rows) >= 2

\* C2: the i-th GET of a walk is at offset 100 * (i - 1); every page but the
\* last downloaded has the Next Page marker, and the walk returns only on a
\* page without it: N - 1 marked pages then an unmarked one are N GETs.
C2_FetchOffsets ==
    /\ \A i \in 1..Len(requests) : OffsetOf(requests[i][1]) = 100 * (i - 1)
    /\ \A i \in 1..(Len(requests) - 1) : requests[i][2].next
    /\ WalkReturned => ~requests[Len(requests)][2].next

C2_Witness ==
    /\ WalkReturned
    /\ Len(requests) >= 2
    /\ OffsetOf(requests[2][1]) = 100

\* C8: after k advances of a URL built at offset 0 the offset field reads
\* 100 * k and every other part of the URL is as built.
C8_OffsetAfterAdvances ==
    pc = "url" =>
       LET built == build_pfr_url(years[1], weeks[1], positions[1], 0)
       IN  /\ url.scheme = built.scheme
           /\ url.netloc = built.netloc
           /\ url.path = built.path
           /\ Len(url.query) = Len(built.query)
           /\ \A i \in 1..Len(built.query) :
                 /\ url.query[i][1] = built.query[i][1]
                 /\ IF built.query[i][1] = "offset"
                    THEN /\ IsIntLiteral(url.query[i][2])
                         /\ PyInt(url.query[i][2]) = 100 * k
                    ELSE url.query[i][2] = built.query[i][2]

C8_Witness == pc = "url" /\ k >= 10 /\ OffsetOf(url) = 1000

\* pd.concat applied frame after frame to an empty frame
RECURSIVE ConcatAll(_)
ConcatAll(frames) ==
    IF Len(frames) = 0 THEN EmptyFrame
    ELSE Concat(ConcatAll(SubSeq(frames, 1, Len(frames) - 1)), frames[Len(frames)])

FramesOf(ws) == [i \in 1..Len(ws) |-> ws[i].frame]

QueriesOf(ws) == [i \in 1..Len(ws) |-> ws[i].query]

Sweeping == pc \in {"for_query", "while"}

\* C3: the to_sql calls are one per position in the order of the positions,
\* each to the position's table name, each made when every (year, week) of
\* the position has been walked; while a position is being fetched, exactly
\* the positions before it have been written.
C3_OnePersistPerPosition ==
    /\ Sweeping \/ pc = "aborted" => Len(persistLog) = pi - 1
    /\ pc \in {"for_position", "done"} => Len(persistLog) = pi
    /\ pc = "done" => Len(persistLog) = Len(positions)
    /\ \A i \in 1..Len(persistLog) :
          /\ persistLog[i].name = Position[positions[i]].name
          /\ QueriesOf(persistLog[i].walks) = Product(years, weeks, <<positions[i]>>)

C3_Witness ==
    /\ pc = "while"
    /\ pi >= 3
    /\ Len(persistLog) = pi - 1
    /\ persistLog[1].name # persistLog[2].name

HasHeaderRepeat(rows) ==
    \E j \in 1..Len(rows) : "Player" \in DOMAIN rows[j] /\ IsHeaderRepeat(rows[j])

\* C4: no row whose Player cell is 'Player' is ever in agg_df, in a frame
\* handed to to_sql or in a table.
C4_NoHeaderRepeatInDataset ==
    /\ ~HasHeaderRepeat(agg_df.rows)
    /\ \A i \in 1..Len(persistLog) : ~HasHeaderRepeat(persistLog[i].frame.rows)
    /\ \A n \in TableNames : ~HasHeaderRepeat(db[n].rows) /\ ~HasHeaderRepeat(committed[n].rows)

C4_Witness ==
    /\ pc = "for_position"
    /\ Len(persistLog) >= 1
    /\ \E j \in 1..Len(Served) : RawIsHeader(Served[j])
    /\ Len(persistLog[Len(persistLog)].frame.rows) >= 1

\* C5: the step on which a GET raises issues no GET and no to_sql and leaves
\* every table as it was, each table written before holding the frame
\* written to it; and no step follows it.
C5_TransportErrorAborts ==
    [][/\ exc = "TransportError" =>
             requests' = requests /\ persistLog' = persistLog /\ db' = db
       /\ exc' = "TransportError" /\ exc = "none" =>
             /\ requests' = requests
             /\ persistLog' = persistLog
             /\ db' = db
             /\ \A i \in 1..Len(persistLog) :
                   db'[persistLog[i].name] = TableOf(persistLog[i].frame)]_vars

C5_Witness ==
    /\ exc = "TransportError"
    /\ pi >= 2
    /\ Len(persistLog[1].frame.rows) >= 1
    /\ db[persistLog[1].name] = TableOf(persistLog[1].frame)
    /\ db[Position[position].name].rows = <<StaleRow>>

\* C6: the rows a walk hands to agg_df all come from pages with one and the
\* same column set, and so do the walks of one position.
C6_OneColumnSet ==
    /\ WalkReturned =>
          \A i, j \in 1..Len(requests) :
             Len(requests[i][2].rows) > 0 /\ Len(requests[j][2].rows) > 0
                => requests[i][2].columns = requests[j][2].columns
    /\ \A i, j \in 1..Len(walks) : walks[i].frame.columns = walks[j].frame.columns

CleanErrors == {"AttributeError", "KeyError"}

\* pd.to_numeric and pd.to_datetime do not convert x (the numeric cells of
\* the remote tables modelled are integers)
Uncoercible(c, x) ==
    \/ c \in NumericColumns /\ ~IsIntLiteral(x)
    \/ c \in DateColumns /\ ~IsIsoDate(x)

\* a cell that does not convert to its column's type is kept as the string
\* it was, in the frames read and in the frame returned
KeepsText ==
    /\ pc = "while" =>
          \A j \in 1..Len(Served) : \A c \in DOMAIN Served[j] :
             Uncoercible(c, Served[j][c]) => df.rows[j][c] = S(Served[j][c])
    /\ WalkReturned =>
          LET kept == SelectSeq(Served, LAMBDA raw : ~RawIsHeader(raw))
          IN  \A j \in 1..Len(kept) : \A c \in DOMAIN kept[j] \ {UNNAMED7} :
                 Uncoercible(c, kept[j][c]) => LastWalk.frame.rows[j][c] = S(kept[j][c])

\* C7 as stated: cleaning the downloaded tables never raises, whatever the
\* rows, and keeps every cell that does not convert as the string it was.
C7_CleanNeverRaises == KeepsText /\ exc \notin CleanErrors

\* C7: a cell that does not convert to its column's type is kept as the
\* string it was and raises nothing; cleaning raises only when no downloaded
\* page has the column Player or none has the column Unnamed: 7.
C7_CoercionKeepsText ==
    /\ KeepsText
    /\ exc \in CleanErrors => "Player" \notin df.columns \/ UNNAMED7 \notin df.columns
    /\ exc = "AttributeError" => "Player" \notin df.columns
    /\ exc = "KeyError" => UNNAMED7 \notin df.columns

C7_Witness ==
    /\ WalkReturned
    /\ \E j \in 1..Len(LastWalk.frame.rows) :
          /\ LastWalk.frame.rows[j]["Date"] = S(<<"T","B","D">>)
          /\ LastWalk.frame.rows[j]["Rk"].t = "int"

\* C9: a table that was written holds exactly the frame written to it, none
\* of the rows it held before, and writing that frame again changes nothing.
C9_ReplaceIsIdempotent ==
    \A i \in 1..Len(persistLog) :
       /\ db[persistLog[i].name] = TableOf(persistLog[i].frame)
       /\ committed[persistLog[i].name] = TableOf(persistLog[i].frame)
       /\ ToSql(db, persistLog[i].name, persistLog[i].frame) = db

C9_Witness ==
    /\ Len(persistLog) >= 1
    /\ Len(persistLog[1].frame.rows) >= 1
    /\ \E n \in TableNames : db[n].rows = <<StaleRow>>

RowsOfPosition(rows, p) ==
    \A j \in 1..Len(rows) : rows[j]["Pos"] = S(PosCode[p])

WalksOfPosition(ws, p) ==
    /\ QueriesOf(ws) = SubSeq(Product(years, weeks, <<p>>), 1, Len(ws))
    /\ \A i \in 1..Len(ws) :
          ws[i].first = build_pfr_url(ws[i].query[1], ws[i].query[2], p, 0)

\* C10: agg_df is the concatenation, from an empty frame, of the frames of
\* the position's walks so far, one walk per (year, week) in product order,
\* each begun at offset 0 for that position; the frame written for a
\* position is that of all its (year, week) and holds rows of that position
\* only.
C10_DatasetIsConcatOfWalks ==
    /\ Sweeping =>
          /\ agg_df = ConcatAll(FramesOf(walks))
          /\ Len(walks) = qi - 1
          /\ WalksOfPosition(walks, position)
    /\ \A i \in 1..Len(persistLog) :
          /\ persistLog[i].frame = ConcatAll(FramesOf(persistLog[i].walks))
          /\ Len(persistLog[i].walks) = Len(years) * Len(weeks)
          /\ WalksOfPosition(persistLog[i].walks, positions[i])
          /\ RowsOfPosition(persistLog[i].frame.rows, positions[i])

C10_Witness ==
    /\ pc = "for_position"
    /\ pi >= 2
    /\ Len(persistLog[pi - 1].frame.rows) >= 1
    /\ Len(persistLog[pi].frame.rows) >= 1

====
